---- MODULE Spec2Model ----
(***************************************************************************)
(* A model of bevy_paths: the component validator, the template resolvers  *)
(* and the path registry.                                                  *)
(*                                                                         *)
(* A string is a sequence of characters and a character is a TLA+ string   *)
(* of the model's alphabet ("a", "/", "COMBINING_ACUTE", ...).  Paths are  *)
(* kept as the text a PathBuf holds; std::path is modelled with its Unix   *)
(* behaviour (separator "/", no prefixes), the host the repository's       *)
(* #[cfg(unix)] tests run on.                                              *)
(***************************************************************************)
EXTENDS Integers, Sequences, FiniteSets, TLC

VARIABLES plugin, registry, call, decl, env

vars == <<plugin, registry, call, decl, env>>

(***************************************************************************)
(* Bounds of the model.                                                    *)
(***************************************************************************)
\* components joined by "/" in an input of the validators
MaxComps == 3
\* pieces put before and after a reserved name in an input of validate_component
MaxAffix == 1
\* registrations a plugin accumulates before it is built
MaxRegs == 2
\* fields of a typed path struct
MaxFields == 2
\* registration calls made on a plugin whose registrations repeat a kind
MaxCalls == 3

(***************************************************************************)
(* Characters and strings.                                                 *)
(***************************************************************************)
SLASH == "/"

LowerLetters == <<"a", "b", "c", "d", "e", "f", "g", "h", "i", "j", "k", "l", "m",
                  "n", "o", "p", "q", "r", "s", "t", "u", "v", "w", "x", "y", "z">>

UpperLetters == <<"A", "B", "C", "D", "E", "F", "G", "H", "I", "J", "K", "L", "M",
                  "N", "O", "P", "Q", "R", "S", "T", "U", "V", "W", "X", "Y", "Z">>

\* char::is_whitespace, on the alphabet of the model
WhiteSpace == {" "}

\* char::to_uppercase: a-z, and U+00E9 (e with acute) to U+00C9
UpperChar(c) ==
    IF \E i \in 1..Len(LowerLetters) : LowerLetters[i] = c
    THEN UpperLetters[CHOOSE i \in 1..Len(LowerLetters) : LowerLetters[i] = c]
    ELSE IF c = "E_ACUTE" THEN "CAPITAL_E_ACUTE" ELSE c

\* str::to_uppercase
to_uppercase(name) == [i \in 1..Len(name) |-> UpperChar(name[i])]

\* str::contains(char)
ContainsChar(s, c) == \E i \in 1..Len(s) : s[i] = c

\* str::starts_with(&str) / ends_with / contains(&str)
StartsWithStr(s, p) == Len(p) <= Len(s) /\ SubSeq(s, 1, Len(p)) = p

OccursAt(s, p, i) == i >= 1 /\ i + Len(p) - 1 <= Len(s) /\ SubSeq(s, i, i + Len(p) - 1) = p

ContainsStr(s, p) == \E i \in 1..(Len(s) + 1) : OccursAt(s, p, i)

RECURSIVE TrimStart(_)
TrimStart(s) == IF s # <<>> /\ Head(s) \in WhiteSpace THEN TrimStart(Tail(s)) ELSE s

RECURSIVE TrimEnd(_)
TrimEnd(s) ==
    IF s # <<>> /\ s[Len(s)] \in WhiteSpace THEN TrimEnd(SubSeq(s, 1, Len(s) - 1)) ELSE s

\* str::trim
trim(s) == TrimEnd(TrimStart(s))

\* str::split('/'): the pieces between separators, empty ones included
RECURSIVE Split(_)
Split(s) ==
    IF ~ContainsChar(s, SLASH) THEN <<s>>
    ELSE LET i == CHOOSE k \in 1..Len(s) : s[k] = SLASH /\ \A j \in 1..(k - 1) : s[j] # SLASH
         IN  <<SubSeq(s, 1, i - 1)>> \o Split(SubSeq(s, i + 1, Len(s)))

\* the pieces joined by "/"
RECURSIVE JoinSlash(_)
JoinSlash(ps) ==
    IF ps = <<>> THEN <<>>
    ELSE IF Len(ps) = 1 THEN ps[1]
    ELSE ps[1] \o <<SLASH>> \o JoinSlash(Tail(ps))

RECURSIVE Flatten(_)
Flatten(ss) == IF ss = <<>> THEN <<>> ELSE Head(ss) \o Flatten(Tail(ss))

RECURSIVE SelectSeqOf(_, _)
SelectSeqOf(s, keep) ==
    IF s = <<>> THEN <<>>
    ELSE (IF keep[1] THEN <<Head(s)>> ELSE <<>>)
         \o SelectSeqOf(Tail(s), Tail(keep))

(***************************************************************************)
(* std::path on Unix.                                                      *)
(***************************************************************************)
DOT == <<".">>
DOTDOT == <<".", ".">>

\* Path::has_root / Path::is_absolute
is_absolute(p) == p # <<>> /\ p[1] = SLASH

\* Path::components: RootDir for a leading "/", CurDir for a leading "." of a
\* relative path; of the pieces between separators an empty piece and a "."
\* yield nothing, ".." yields ParentDir, anything else Normal
components(p) ==
    LET pieces == Split(p)
        root == is_absolute(p)
        cur == ~root /\ pieces # <<>> /\ pieces[1] = DOT
        one(x) == IF x = <<>> \/ x = DOT THEN <<>>
                  ELSE IF x = DOTDOT THEN <<[kind |-> "ParentDir", os |-> <<>>]>>
                  ELSE <<[kind |-> "Normal", os |-> x]>>
    IN  (IF root THEN <<[kind |-> "RootDir", os |-> <<>>]>> ELSE <<>>)
        \o (IF cur THEN <<[kind |-> "CurDir", os |-> <<>>]>> ELSE <<>>)
        \o Flatten([i \in 1..Len(pieces) |-> one(pieces[i])])

\* PathBuf::push: an absolute argument replaces the path, otherwise it is
\* appended after a separator (none after an empty path or a trailing "/")
push(buf, p) ==
    IF is_absolute(p) THEN p
    ELSE IF buf # <<>> /\ buf[Len(buf)] # SLASH THEN buf \o <<SLASH>> \o p
    ELSE buf \o p

\* Path::join
join(base, p) == push(base, p)

(***************************************************************************)
(* Results: Ok(val) or Err(err), the payload of InvalidComponent in val.   *)
(***************************************************************************)
Ok(v) == [tag |-> "Ok", err |-> "", val |-> v]

Err(e) == [tag |-> "Err", err |-> e, val |-> <<>>]

InvalidComponent(name) == [tag |-> "Err", err |-> "InvalidComponent", val |-> name]

\* an error that carries a path
ErrPath(e, path) == [tag |-> "Err", err |-> e, val |-> path]

Some(v) == [tag |-> "Some", err |-> "", val |-> v]

None == [tag |-> "None", err |-> "", val |-> <<>>]

(***************************************************************************)
(* The host: the build mode, the executable and the filesystem.            *)
(***************************************************************************)
ROOT_DIR == <<"/">>
APP_DIR == <<"/", "a", "p", "p">>
EXE_FILE == <<"/", "a", "p", "p", "/", "g", "a", "m", "e">>
ROOT_EXE_FILE == <<"/", "g", "a", "m", "e">>
DATA_DIR == <<"/", "d", "a", "t", "a">>
DATA_FILE == <<"/", "d", "a", "t", "a", "/", "f", "i", "l", "e">>
DATA_LINK == <<"/", "l", "i", "n", "k">>
ROOT_LINK == <<"/", "r", "o", "o", "t", "l", "i", "n", "k">>
RO_DIR == <<"/", "r", "o">>

\* env::current_exe() failed
NoExe == <<>>

\* a debug build started from /app/game: the directories, the regular files,
\* the symbolic links (link, target), the directories in which nothing can
\* be created, and the directories another process removes while the base
\* path is determined, after they were looked for or created
HostEnv ==
    [debug |-> TRUE, exe |-> EXE_FILE,
     dirs |-> {ROOT_DIR, APP_DIR, DATA_DIR, RO_DIR},
     files |-> {EXE_FILE, ROOT_EXE_FILE, DATA_FILE},
     links |-> {<<DATA_LINK, DATA_DIR>>, <<ROOT_LINK, ROOT_DIR>>},
     denied |-> {RO_DIR},
     removed |-> {}]

\* the names between the separators of p
Names(p) == SelectSeq(Split(p), LAMBDA x : x # <<>>)

\* the absolute path of the names
PathOf(names) == <<SLASH>> \o JoinSlash(names)

\* Path::parent of an absolute path without "." and "..": None for the root
parent(p) ==
    IF Names(p) = <<>> THEN None
    ELSE Some(PathOf(SubSeq(Names(p), 1, Len(Names(p)) - 1)))

\* the target of a symbolic link, the path itself otherwise
Follow(e, p) ==
    IF \E l \in e.links : l[1] = p THEN (CHOOSE l \in e.links : l[1] = p)[2] ELSE p

\* the resolution of the names from directory cur, as the system does it: a
\* name is looked up in an existing directory only, "." stays, ".." goes up,
\* a link is followed
RECURSIVE Walk(_, _, _)
Walk(e, names, cur) ==
    IF names = <<>> THEN [ok |-> TRUE, names |-> cur]
    ELSE IF PathOf(cur) \notin e.dirs THEN [ok |-> FALSE, names |-> cur]
    ELSE IF Head(names) = DOT THEN Walk(e, Tail(names), cur)
    ELSE IF Head(names) = DOTDOT
         THEN Walk(e, Tail(names), IF cur = <<>> THEN cur ELSE SubSeq(cur, 1, Len(cur) - 1))
    ELSE Walk(e, Tail(names), Names(Follow(e, PathOf(Append(cur, Head(names))))))

\* fs::canonicalize of an absolute path
canonicalize(e, p) ==
    LET w == Walk(e, Names(p), <<>>)
    IN  IF w.ok /\ PathOf(w.names) \in (e.dirs \cup e.files)
        THEN Ok(PathOf(w.names))
        ELSE Err("io")

\* Path::exists
exists(e, p) == canonicalize(e, p).tag = "Ok"

\* the directories after the names are created below cur, one after the
\* other: ok is FALSE when a name is a regular file or cur takes no entry
RECURSIVE Create(_, _, _, _)
Create(e, names, cur, dirs) ==
    IF names = <<>> THEN [ok |-> TRUE, dirs |-> dirs]
    ELSE IF Head(names) = DOT THEN Create(e, Tail(names), cur, dirs)
    ELSE IF Head(names) = DOTDOT
         THEN Create(e, Tail(names),
                     IF cur = <<>> THEN cur ELSE SubSeq(cur, 1, Len(cur) - 1), dirs)
    ELSE LET next == Follow(e, PathOf(Append(cur, Head(names))))
         IN  IF next \in dirs THEN Create(e, Tail(names), Names(next), dirs)
             ELSE IF next \in e.files \/ PathOf(cur) \in e.denied
                  THEN [ok |-> FALSE, dirs |-> dirs]
             ELSE Create(e, Tail(names), Names(next), dirs \cup {next})

\* fs::create_dir_all
create_dir_all(e, p) == Create(e, Names(p), <<>>, e.dirs)

(***************************************************************************)
(* bevy_paths_validation: the component validator.                         *)
(***************************************************************************)
\* a mutant of the forbidden characters: the asterisk is missing
invalid_without_asterisk == {"<", ">", "\"", ":", "|", "?"}

invalid == {"<", ">", "\"", ":", "|", "?", "*"}

RESERVED_CON == <<"C", "O", "N">>
RESERVED_PRN == <<"P", "R", "N">>
RESERVED_AUX == <<"A", "U", "X">>
RESERVED_NUL == <<"N", "U", "L">>

Digits19 == {"1", "2", "3", "4", "5", "6", "7", "8", "9"}

reserved ==
    {RESERVED_CON, RESERVED_PRN, RESERVED_AUX, RESERVED_NUL}
    \cup {<<"C", "O", "M", d>> : d \in Digits19}
    \cup {<<"L", "P", "T", d>> : d \in Digits19}

\* a mutant of the reserved-name test: a name that starts with a reserved name
is_reserved_prefix(up) == \E r \in reserved : StartsWithStr(up, r)

\* up == *r for some reserved r
is_reserved(up) == up \in reserved

\* unicode_normalization nfc(): e followed by U+0301 composes to U+00E9
RECURSIVE normalize_component(_)
normalize_component(s) ==
    IF s = <<>> THEN <<>>
    ELSE IF Len(s) >= 2 /\ s[1] = "e" /\ s[2] = "COMBINING_ACUTE"
         THEN <<"E_ACUTE">> \o normalize_component(SubSeq(s, 3, Len(s)))
    ELSE <<Head(s)>> \o normalize_component(Tail(s))

validate_component(name) ==
    IF \E i \in 1..Len(name) : name[i] \in invalid THEN InvalidComponent(name)
    ELSE IF is_reserved(to_uppercase(name)) THEN InvalidComponent(name)
    ELSE IF name # <<>> /\ name[Len(name)] \in {" ", "."} THEN InvalidComponent(name)
    ELSE Ok(<<>>)

\* the Normal components of p, as strings
NormalComponents(p) ==
    LET cs == components(p)
    IN  SelectSeqOf([i \in 1..Len(cs) |-> cs[i].os],
                    [i \in 1..Len(cs) |-> cs[i].kind = "Normal"])

\* a mutant of the navigation scan: only the first component is looked at
HasNavigation_first_only(p) ==
    components(p) # <<>> /\ components(p)[1].kind \in {"CurDir", "ParentDir"}

HasNavigation(p) ==
    \E i \in 1..Len(components(p)) : components(p)[i].kind \in {"CurDir", "ParentDir"}

\* the outcome of `for comp ... validate_component(&normalize_component(..))?`
\* over the components in cs: the first error, or Ok
FirstComponentError(cs) ==
    LET bad == {i \in 1..Len(cs) : validate_component(normalize_component(cs[i])).tag = "Err"}
    IN  IF bad = {} THEN Ok(<<>>)
        ELSE validate_component(normalize_component(
                 cs[CHOOSE i \in bad : \A j \in bad : i <= j]))

\* s_comp.contains('{')
is_placeholder(s_comp) == ContainsChar(s_comp, "{")

\* a mutant of validate_structural_path: it returns the components re-joined
vsp_rejoined(relative_path) ==
    LET s == trim(relative_path)
    IN  IF s = <<>> THEN Err("EmptyPath")
        ELSE IF s[1] = "~" THEN Err("TildeNotAllowed")
        ELSE IF is_absolute(s) THEN Err("AbsolutePathNotAllowed")
        ELSE IF HasNavigation(s) THEN Err("RelativeNavigationNotAllowed")
        ELSE LET literal == SelectSeq(NormalComponents(s), LAMBDA c : ~is_placeholder(c))
                 e == FirstComponentError(literal)
             IN  IF e.tag = "Err" THEN e ELSE Ok(JoinSlash(NormalComponents(s)))

validate_structural_path(relative_path) ==
    LET s == trim(relative_path)
    IN  IF s = <<>> THEN Err("EmptyPath")
        ELSE IF s[1] = "~" THEN Err("TildeNotAllowed")
        ELSE IF is_absolute(s) THEN Err("AbsolutePathNotAllowed")
        ELSE IF HasNavigation(s) THEN Err("RelativeNavigationNotAllowed")
        ELSE LET literal == SelectSeq(NormalComponents(s), LAMBDA c : ~is_placeholder(c))
                 e == FirstComponentError(literal)
             IN  IF e.tag = "Err" THEN e ELSE Ok(s)

(***************************************************************************)
(* src/src/lib.rs: the registry built by a plugin that accumulates         *)
(* registrations.                                                          *)
(***************************************************************************)
RECURSIVE PushAll(_, _)
PushAll(buf, cs) == IF cs = <<>> THEN buf ELSE PushAll(push(buf, Head(cs)), Tail(cs))

\* PathRegistryPlugin::validate_and_normalize: every Normal component is
\* normalized, validated and pushed onto the returned path
validate_and_normalize(relative_path) ==
    LET s == trim(relative_path)
    IN  IF s = <<>> THEN Err("EmptyPath")
        ELSE IF s[1] = "~" THEN Err("TildeNotAllowed")
        ELSE IF is_absolute(s) THEN Err("AbsolutePathNotAllowed")
        ELSE IF HasNavigation(s) THEN Err("RelativeNavigationNotAllowed")
        ELSE LET cs == NormalComponents(s)
                 e == FirstComponentError(cs)
             IN  IF e.tag = "Err" THEN e
                 ELSE Ok(PushAll(<<>>, [i \in 1..Len(cs) |-> normalize_component(cs[i])]))

\* a mutant of the checks of register_template: the absolute check is left out
register_template_check_no_absolute(template) ==
    LET s == trim(template)
    IN  IF s = <<>> THEN Err("EmptyPath")
        ELSE IF ContainsStr(s, DOTDOT) THEN Err("RelativeNavigationNotAllowed")
        ELSE Ok(s)

\* the checks of PathRegistryPlugin::register_template
register_template_check(template) ==
    LET s == trim(template)
    IN  IF s = <<>> THEN Err("EmptyPath")
        ELSE IF is_absolute(s) THEN Err("AbsolutePathNotAllowed")
        ELSE IF ContainsStr(s, DOTDOT) THEN Err("RelativeNavigationNotAllowed")
        ELSE Ok(s)

STUDIO == <<"S">>
PROJECT == <<"P">>
APP == <<"A">>

\* PathRegistryPlugin::new
NewPlugin ==
    [state |-> "Building", studio |-> STUDIO, project_id |-> PROJECT, app_id |-> APP,
     base_path_override |-> None, registrations |-> <<>>, template_registrations |-> <<>>]

\* no registry has been inserted into the app yet
NoRegistry ==
    [state |-> "None", studio |-> <<>>, project_id |-> <<>>, app_id |-> <<>>,
     base_path |-> <<>>, paths |-> <<>>, templates |-> <<>>]

\* the last call: its operation, its arguments (kind, arg, fields), the
\* relative path it computed before joining (rel) and what it returned
NoCall ==
    [op |-> "none", kind |-> "", arg |-> <<>>, fields |-> <<>>, rel |-> <<>>,
     result |-> Ok(<<>>)]

Call(op, kind, arg, fields, result) ==
    [op |-> op, kind |-> kind, arg |-> arg, fields |-> fields, rel |-> <<>>,
     result |-> result]

\* the marker types of the program
Kinds == {"SavePath", "DynamicLevel"}

\* no typed path is declared (the programs of src/src/lib.rs use marker types)
NoDecl == [template |-> <<>>, fields |-> <<>>]

Init ==
    /\ plugin = NewPlugin
    /\ registry = NoRegistry
    /\ call = NoCall
    /\ decl = NoDecl
    /\ env = HostEnv

\* validate_component(name), called directly (it is public)
ValidateComponent(name) ==
    /\ call' = Call("validate_component", "", name, <<>>, validate_component(name))
    /\ UNCHANGED <<plugin, registry, decl, env>>

\* validate_structural_path(relative_path), called directly
ValidateStructuralPath(s) ==
    /\ call' = Call("validate_structural_path", "", s, <<>>, validate_structural_path(s))
    /\ UNCHANGED <<plugin, registry, decl, env>>

\* plugin.validate_and_normalize(relative_path), as the tests call it
ValidateAndNormalize(s) ==
    /\ plugin.state = "Building"
    /\ call' = Call("validate_and_normalize", "", s, <<>>, validate_and_normalize(s))
    /\ UNCHANGED <<plugin, registry, decl, env>>

\* PathRegistryPlugin::register::<T>(self, relative_path): the plugin is taken
\* by value, so an Err drops it
Register(k, s) ==
    LET r == validate_and_normalize(s)
    IN  /\ plugin.state = "Building"
        /\ plugin' = IF r.tag = "Ok"
                     THEN [plugin EXCEPT !.registrations = Append(@, <<k, r.val>>)]
                     ELSE [plugin EXCEPT !.state = "Dropped"]
        /\ call' = Call("register", k, s, <<>>, r)
        /\ UNCHANGED <<registry, decl, env>>

\* PathRegistryPlugin::register_template::<T>(self, template)
RegisterTemplate(k, s) ==
    LET r == register_template_check(s)
    IN  /\ plugin.state = "Building"
        /\ plugin' = IF r.tag = "Ok"
                     THEN [plugin EXCEPT !.template_registrations = Append(@, <<k, r.val>>)]
                     ELSE [plugin EXCEPT !.state = "Dropped"]
        /\ call' = Call("register_template", k, s, <<>>, r)
        /\ UNCHANGED <<registry, decl, env>>

\* the strings of the tests and examples
SAVES_SLOT_1 == <<"s", "a", "v", "e", "s", "/", "s", "l", "o", "t", "_", "1">>
ABSOLUTE_PATH == <<"/", "a", "b", "s", "o", "l", "u", "t", "e", "/", "p", "a", "t", "h">>
PARENT == <<".", ".", "/", "p", "a", "r", "e", "n", "t">>
LEVELS_TEMPLATE == <<"l", "e", "v", "e", "l", "s", "/", "{", "i", "d", "}", "/", "m", "a", "p", ".", "d", "a", "t">>
BACKUP_TEMPLATE == <<"b", "a", "c", "k", "u", "p", "/", "{", "d", "a", "t", "e", "}", "/", "{", "d", "a", "t", "e", "}", "_", "s", "a", "v", "e", ".", "j", "s", "o", "n">>
CHUNKS_TEMPLATE == <<"c", "h", "u", "n", "k", "s", "/", "{", "x", "}", "_", "{", "y", "}", ".", "d", "a", "t">>
DATE_VALUE == <<"2", "0", "2", "4", "-", "0", "1", "-", "0", "1">>
BASE_DIR == <<"/", "b", "a", "s", "e">>
TMP_BASE_DIR == <<"/", "t", "m", "p", "/", "b", "a", "s", "e">>

\* a mutant of str::replace: only the first match is replaced (replacen(.., 1))
replace_first(s, from, to) ==
    IF \E i \in 1..Len(s) : OccursAt(s, from, i)
    THEN LET i == CHOOSE k \in 1..Len(s) :
                      OccursAt(s, from, k) /\ \A j \in 1..(k - 1) : ~OccursAt(s, from, j)
         IN  SubSeq(s, 1, i - 1) \o to \o SubSeq(s, i + Len(from), Len(s))
    ELSE s

\* str::replace with a non-empty pattern: every non-overlapping match, found
\* from the left, is replaced
RECURSIVE replace(_, _, _)
replace(s, from, to) ==
    IF Len(s) < Len(from) THEN s
    ELSE IF SubSeq(s, 1, Len(from)) = from
         THEN to \o replace(SubSeq(s, Len(from) + 1, Len(s)), from, to)
    ELSE <<Head(s)>> \o replace(Tail(s), from, to)

\* format!("{{{}}}", key)
placeholder_of(key) == <<"{">> \o key \o <<"}">>

\* a mutant of the collection into a HashMap: an earlier pair is kept
collect_first(regs) ==
    [k \in {regs[i][1] : i \in 1..Len(regs)} |->
        regs[CHOOSE i \in 1..Len(regs) :
                 regs[i][1] = k /\ \A j \in 1..(i - 1) : regs[j][1] # k][2]]

\* Vec<(TypeId, V)> collected into a HashMap: a later pair replaces an earlier
\* one of the same key
collect(regs) ==
    [k \in {regs[i][1] : i \in 1..Len(regs)} |->
        regs[CHOOSE i \in 1..Len(regs) :
                 regs[i][1] = k /\ \A j \in (i + 1)..Len(regs) : regs[j][1] # k][2]]

\* a mutant of project_root: the app identifier is joined as well
project_root_with_app(r) == join(join(join(r.base_path, r.studio), r.project_id), r.app_id)

\* PathRegistry::project_root
project_root(r) == join(join(r.base_path, r.studio), r.project_id)

\* the directories determine_base_path can return: canonical, not the root
BasePaths == {BASE_DIR, TMP_BASE_DIR}

\* Plugin::build: determine_base_path(..).expect(..) either yields the base
\* path, and the registry is built from the registrations and inserted, or
\* panics
Build ==
    /\ plugin.state = "Building"
    /\ \/ \E base \in BasePaths :
             /\ registry' = [state |-> "Active", studio |-> plugin.studio,
                             project_id |-> plugin.project_id, app_id |-> plugin.app_id,
                             base_path |-> base,
                             paths |-> collect(plugin.registrations),
                             templates |-> collect(plugin.template_registrations)]
             /\ plugin' = [plugin EXCEPT !.state = "Built"]
             /\ call' = Call("build", "", <<>>, <<>>, Ok(base))
             /\ UNCHANGED <<decl, env>>
       \/ /\ plugin' = [plugin EXCEPT !.state = "Panicked"]
          /\ call' = Call("build", "", <<>>, <<>>, Err("panic"))
          /\ UNCHANGED <<registry, decl, env>>

\* PathRegistry::project_root, called on the inserted registry
ProjectRoot ==
    /\ registry.state = "Active"
    /\ call' = Call("project_root", "", <<>>, <<>>, Ok(project_root(registry)))
    /\ UNCHANGED <<plugin, registry, decl, env>>

\* PathRegistry::get_relative::<T>
GetRelative(k) ==
    /\ registry.state = "Active"
    /\ call' = Call("get_relative", k, <<>>, <<>>,
                    IF k \in DOMAIN registry.paths THEN Some(registry.paths[k]) ELSE None)
    /\ UNCHANGED <<plugin, registry, decl, env>>

\* a mutant of get: the path is taken out of the registry
Get_taking(k) ==
    /\ registry.state = "Active"
    /\ call' = Call("get", k, <<>>, <<>>,
                    IF k \in DOMAIN registry.paths
                    THEN Some(join(project_root(registry), registry.paths[k]))
                    ELSE None)
    /\ registry' = [registry EXCEPT !.paths = [j \in DOMAIN registry.paths \ {k} |->
                                                  registry.paths[j]]]
    /\ UNCHANGED <<plugin, decl, env>>

\* PathRegistry::get::<T>
Get(k) ==
    /\ registry.state = "Active"
    /\ call' = Call("get", k, <<>>, <<>>,
                    IF k \in DOMAIN registry.paths
                    THEN Some(join(project_root(registry), registry.paths[k]))
                    ELSE None)
    /\ UNCHANGED <<plugin, registry, decl, env>>

\* a mutant of resolve: a kind without template resolves to the project root
Resolve_or_root(k, key, value) ==
    /\ registry.state = "Active"
    /\ call' =
          LET template == IF k \in DOMAIN registry.templates THEN registry.templates[k] ELSE <<>>
              resolved_rel == replace(template, placeholder_of(key), value)
          IN  [op |-> "resolve", kind |-> k, arg |-> template,
               fields |-> <<[name |-> key, value |-> value]>>,
               rel |-> resolved_rel,
               result |-> Some(join(project_root(registry), resolved_rel))]
    /\ UNCHANGED <<plugin, registry, decl, env>>

\* a mutant of resolve: a kind without template falls back to its fixed path
Resolve_paths_too(k, key, value) ==
    /\ registry.state = "Active"
    /\ call' =
          IF k \in DOMAIN registry.templates
          THEN LET template == registry.templates[k]
                   resolved_rel == replace(template, placeholder_of(key), value)
               IN  [op |-> "resolve", kind |-> k, arg |-> template,
                    fields |-> <<[name |-> key, value |-> value]>>,
                    rel |-> resolved_rel,
                    result |-> Some(join(project_root(registry), resolved_rel))]
          ELSE [op |-> "resolve", kind |-> k, arg |-> <<>>,
                fields |-> <<[name |-> key, value |-> value]>>, rel |-> <<>>,
                result |-> IF k \in DOMAIN registry.paths
                           THEN Some(join(project_root(registry), registry.paths[k]))
                           ELSE None]
    /\ UNCHANGED <<plugin, registry, decl, env>>

\* PathRegistry::resolve::<T>(key, value) of src/src/lib.rs
Resolve(k, key, value) ==
    /\ registry.state = "Active"
    /\ call' =
          IF k \in DOMAIN registry.templates
          THEN LET template == registry.templates[k]
                   resolved_rel == replace(template, placeholder_of(key), value)
               IN  [op |-> "resolve", kind |-> k, arg |-> template,
                    fields |-> <<[name |-> key, value |-> value]>>,
                    rel |-> resolved_rel,
                    result |-> Some(join(project_root(registry), resolved_rel))]
          ELSE [op |-> "resolve", kind |-> k, arg |-> <<>>,
                fields |-> <<[name |-> key, value |-> value]>>, rel |-> <<>>,
                result |-> None]
    /\ UNCHANGED <<plugin, registry, decl, env>>

(***************************************************************************)
(* Spec: a plugin accumulates registrations, is built into the registry,   *)
(* and the registry is queried.                                            *)
(***************************************************************************)
RegInputs == {SAVES_SLOT_1, ABSOLUTE_PATH, PARENT, <<>>, <<"C", "O", "N">>}

TemplateInputs ==
    {LEVELS_TEMPLATE, BACKUP_TEMPLATE, <<"{", "i", "d", "}">>,
     <<"{", "{", "i", "d", "}", "i", "d", "}">>, <<" ", "/", "{", "i", "d", "}">>,
     <<"a", "/", ".", ".", "/", "{", "i", "d", "}">>}

Keys == {<<"i", "d">>, <<"d", "a", "t", "e">>}

Values ==
    {DATE_VALUE, <<".", ".">>, <<"/", "e", "t", "c">>, <<>>, <<"{">>,
     <<"{", "i", "d", "}">>}

Registered == Len(plugin.registrations) + Len(plugin.template_registrations)

Next ==
    \/ \E k \in Kinds, s \in RegInputs : Registered < MaxRegs /\ Register(k, s)
    \/ \E k \in Kinds, s \in TemplateInputs : Registered < MaxRegs /\ RegisterTemplate(k, s)
    \/ Build
    \/ ProjectRoot
    \/ \E k \in Kinds : GetRelative(k)
    \/ \E k \in Kinds : Get(k)
    \/ \E k \in Kinds, key \in Keys, value \in Values : Resolve(k, key, value)

Spec == Init /\ [][Next]_vars

(***************************************************************************)
(* bevy_paths/src/lib.rs: typed paths, resolved through reflection.        *)
(***************************************************************************)
DigitChars == <<"0", "1", "2", "3", "4", "5", "6", "7", "8", "9">>

RECURSIVE NatToString(_)
NatToString(n) ==
    IF n < 10 THEN <<DigitChars[n + 1]>>
    ELSE NatToString(n \div 10) \o <<DigitChars[(n % 10) + 1]>>

\* i32::to_string
IntToString(n) == IF n < 0 THEN <<"-">> \o NatToString(-n) ELSE NatToString(n)

\* the reflected value of a field: a String, an i32 or a bool
StringValue(s) == [type |-> "String", s |-> s, n |-> 0]

I32Value(n) == [type |-> "i32", s |-> <<>>, n |-> n]

BoolValue(b) == [type |-> "bool", s |-> <<>>, n |-> IF b THEN 1 ELSE 0]

convert_reflect_to_string(value) ==
    IF value.type = "String" THEN value.s
    ELSE IF value.type = "i32" THEN IntToString(value.n)
    ELSE IF value.n = 1 THEN <<"t", "r", "u", "e">> ELSE <<"f", "a", "l", "s", "e">>

\* a mutant of resolve_template_reflection: the loop ends after the first field
resolve_template_reflection_first_field(template, fields) ==
    IF fields = <<>> THEN template
    ELSE replace(template, placeholder_of(fields[1].name),
                 convert_reflect_to_string(fields[1].value))

\* a mutant of resolve_template_reflection: the opening braces that are left
\* after the last field are removed
RECURSIVE resolve_template_reflection_clearing(_, _)
resolve_template_reflection_clearing(template, fields) ==
    IF fields = <<>> THEN replace(template, <<"{">>, <<>>)
    ELSE resolve_template_reflection_clearing(
             replace(template, placeholder_of(fields[1].name),
                     convert_reflect_to_string(fields[1].value)),
             Tail(fields))

\* resolve_template_reflection: the fields of the struct, in declaration
\* order, each replacing its placeholder in the result so far
RECURSIVE resolve_template_reflection(_, _)
resolve_template_reflection(template, fields) ==
    IF fields = <<>> THEN template
    ELSE resolve_template_reflection(
             replace(template, placeholder_of(fields[1].name),
                     convert_reflect_to_string(fields[1].value)),
             Tail(fields))

\* PathRegistryPlugin::register::<T>(self), T being the declared typed path:
\* it panics on a template that validate_structural_path rejects and returns
\* the plugin otherwise
RegisterTyped ==
    LET r == validate_structural_path(decl.template)
    IN  /\ plugin.state = "Building"
        /\ plugin' = IF r.tag = "Ok" THEN plugin ELSE [plugin EXCEPT !.state = "Panicked"]
        /\ call' = Call("register", "", decl.template, <<>>, r)
        /\ UNCHANGED <<registry, decl, env>>

\* Plugin::build of bevy_paths/src/lib.rs: the registry holds the identifiers
\* and the base path only
BuildTyped ==
    /\ plugin.state = "Building"
    /\ \/ \E base \in BasePaths :
             /\ registry' = [state |-> "Active", studio |-> plugin.studio,
                             project_id |-> plugin.project_id, app_id |-> plugin.app_id,
                             base_path |-> base, paths |-> <<>>, templates |-> <<>>]
             /\ plugin' = [plugin EXCEPT !.state = "Built"]
             /\ call' = Call("build", "", <<>>, <<>>, Ok(base))
             /\ UNCHANGED <<decl, env>>
       \/ /\ plugin' = [plugin EXCEPT !.state = "Panicked"]
          /\ call' = Call("build", "", <<>>, <<>>, Err("panic"))
          /\ UNCHANGED <<registry, decl, env>>

\* PathRegistry::resolve::<T>(&data) of bevy_paths/src/lib.rs: data is a
\* value of the declared typed path, values[i] the value of its i-th field
ResolveTyped(values) ==
    /\ registry.state = "Active"
    /\ call' = LET template == decl.template
                   data == [i \in 1..Len(decl.fields) |->
                               [name |-> decl.fields[i].name, value |-> values[i]]]
                   relative_path == resolve_template_reflection(template, data)
               IN  [op |-> "resolve", kind |-> "", arg |-> template, fields |-> data,
                    rel |-> relative_path,
                    result |-> Some(join(project_root(registry), relative_path))]
    /\ UNCHANGED <<plugin, registry, decl, env>>

\* the index of the first c in s at or after i, 0 when there is none
IndexFrom(s, c, i) ==
    IF \E k \in i..Len(s) : s[k] = c
    THEN CHOOSE k \in i..Len(s) : s[k] = c /\ \A j \in i..(k - 1) : s[j] # c
    ELSE 0

\* extract_placeholders: the captures of \{([^}]+)\}, matched from the left
\* without overlap
RECURSIVE extract_placeholders(_)
extract_placeholders(template) ==
    LET open == IndexFrom(template, "{", 1)
        close == IF open = 0 THEN 0 ELSE IndexFrom(template, "}", open + 1)
    IN  IF open = 0 \/ close = 0 THEN <<>>
        ELSE IF close = open + 1
             THEN extract_placeholders(SubSeq(template, open + 1, Len(template)))
        ELSE <<SubSeq(template, open + 1, close - 1)>>
                 \o extract_placeholders(SubSeq(template, close + 1, Len(template)))

\* derive_path: what #[derive(Path)] expands to for a struct with the
\* attribute #[file(..)] (None when it is missing): a panic of the macro, a
\* compile_error!, or the impl with TEMPLATE and PLACEHOLDERS
derive_path(file_attribute) ==
    IF file_attribute = None THEN Err("panic")
    ELSE IF validate_structural_path(file_attribute.val).tag = "Err"
         THEN Err("compile_error")
    ELSE Ok([TEMPLATE |-> file_attribute.val,
             PLACEHOLDERS |-> extract_placeholders(file_attribute.val)])

\* #[derive(Path)] on the declared struct, with or without #[file(template)]
DerivePath(file_attribute) ==
    /\ call' = [op |-> "derive", kind |-> "", arg |-> file_attribute, fields |-> decl.fields,
                rel |-> <<>>, result |-> derive_path(file_attribute)]
    /\ UNCHANGED <<plugin, registry, decl, env>>

(***************************************************************************)
(* SpecTyped: a program of bevy_paths declares a typed path (a template    *)
(* and a struct of named fields); the plugin may validate its template, is *)
(* built, and values of the typed path are resolved.                       *)
(***************************************************************************)
TypedTemplateInputs ==
    {CHUNKS_TEMPLATE, LEVELS_TEMPLATE, SAVES_SLOT_1, <<"{", "x", "}">>,
     <<"{", "{", "x", "}", "}">>, <<"{", "x", "}", "/", "{", "x", "}">>,
     ABSOLUTE_PATH, PARENT}

FieldNames == {<<"x">>, <<"y">>, <<"i", "d">>}

FieldTypes == {"String", "i32", "bool"}

\* the values of a field type
ValuesOf(type) ==
    IF type = "String"
    THEN {StringValue(DOTDOT), StringValue(<<"{", "y", "}">>), StringValue(<<"y">>),
          StringValue(<<"/", "e", "t", "c">>)}
    ELSE IF type = "i32" THEN {I32Value(10), I32Value(-5)}
    ELSE {BoolValue(TRUE)}

\* the structs of at most MaxFields fields, the names distinct
FieldDecls ==
    UNION {{fs \in [1..n -> [name : FieldNames, type : FieldTypes]] :
               \A i, j \in 1..n : i # j => fs[i].name # fs[j].name} : n \in 0..MaxFields}

InitTyped ==
    /\ plugin = NewPlugin
    /\ registry = NoRegistry
    /\ call = NoCall
    /\ decl \in [template : TypedTemplateInputs, fields : FieldDecls]
    /\ env = HostEnv

DataOf(fields) ==
    {vs \in [1..Len(fields) -> UNION {ValuesOf(ty) : ty \in FieldTypes}] :
        \A i \in 1..Len(fields) : vs[i] \in ValuesOf(fields[i].type)}

NextTyped ==
    \/ RegisterTyped
    \/ BuildTyped
    \/ ProjectRoot
    \/ \E values \in DataOf(decl.fields) : ResolveTyped(values)
    \/ \E file_attribute \in {Some(decl.template), None} : DerivePath(file_attribute)

SpecTyped == InitTyped /\ [][NextTyped]_vars

(***************************************************************************)
(* SpecComponent: one call of validate_component on a name built around a  *)
(* reserved device name.                                                   *)
(***************************************************************************)
LowerChar(c) ==
    IF \E i \in 1..Len(UpperLetters) : UpperLetters[i] = c
    THEN LowerLetters[CHOOSE i \in 1..Len(UpperLetters) : UpperLetters[i] = c]
    ELSE c

Lowered(s) == [i \in 1..Len(s) |-> LowerChar(s[i])]

Capitalised(s) == [i \in 1..Len(s) |-> IF i = 1 THEN s[i] ELSE LowerChar(s[i])]

Cores ==
    UNION {{r, Lowered(r), Capitalised(r)} : r \in reserved} \cup {<<>>, <<"a">>}

AffixPool == {<<"S", "O", "L", "E">>, <<".">>, <<" ">>, <<"*">>, <<"1">>}

\* the strings made of at most n pieces of pool
RECURSIVE Pieces(_, _)
Pieces(pool, n) ==
    IF n = 0 THEN {<<>>}
    ELSE Pieces(pool, n - 1) \cup {p \o q : p \in pool, q \in Pieces(pool, n - 1)}

ComponentInputs ==
    {pre \o core \o suf : pre \in Pieces(AffixPool, MaxAffix), core \in Cores,
                          suf \in Pieces(AffixPool, MaxAffix)}

NextComponent ==
    /\ call.op = "none"
    /\ \E name \in ComponentInputs : ValidateComponent(name)

SpecComponent == Init /\ [][NextComponent]_vars

(***************************************************************************)
(* SpecValidate: one call of a validator, or of a registration, on a       *)
(* freshly constructed plugin.                                             *)
(***************************************************************************)
CompPool ==
    {<<>>, <<" ">>, DOT, DOTDOT, <<"~">>, <<"a">>, <<"a", " ">>, <<"C", "o", "n">>,
     <<"a", "*">>, <<"{", "x", "}">>, <<"{", "x", "}", "*">>, <<"a", ".">>,
     <<"e", "COMBINING_ACUTE">>}

PathInputs ==
    {JoinSlash(cs) : cs \in UNION {[1..n -> CompPool] : n \in 1..MaxComps}}

\* the components the crate documentation names under "Trailing spaces/dots"
FILE_SPACE_TXT == <<"f", "i", "l", "e", " ", ".", "t", "x", "t">>
FILE_DOT == <<"f", "i", "l", "e", ".">>

DocInputs == {FILE_SPACE_TXT, FILE_DOT}

NextValidate ==
    /\ call.op = "none"
    /\ \E s \in PathInputs \cup DocInputs :
          \/ ValidateStructuralPath(s)
          \/ ValidateAndNormalize(s)
          \/ Register("SavePath", s)
          \/ RegisterTemplate("DynamicLevel", s)

SpecValidate == Init /\ [][NextValidate]_vars

(***************************************************************************)
(* The rules of the component validator as the specification words them:   *)
(* a component is a segment of the trimmed input between separators.       *)
(***************************************************************************)
ClaimPieces(s) == Split(trim(s))

ClaimEmpty(s) == \A i \in 1..Len(s) : s[i] \in WhiteSpace

ClaimTilde(s) == \E i \in 1..Len(s) : s[i] = "~" /\ \A j \in 1..(i - 1) : s[j] \in WhiteSpace

ClaimAbsolute(s) == \E i \in 1..Len(s) : s[i] = SLASH /\ \A j \in 1..(i - 1) : s[j] \in WhiteSpace

ClaimHasPiece(s, x) == \E i \in 1..Len(ClaimPieces(s)) : ClaimPieces(s)[i] = x

ClaimNavigation(s) == ClaimHasPiece(s, DOT) \/ ClaimHasPiece(s, DOTDOT)

ClaimLiteral(c) == \A i \in 1..Len(c) : c[i] # "{"

ClaimForbiddenChar(c) == \E i \in 1..Len(c) : c[i] \in {"<", ">", "\"", ":", "|", "?", "*"}

ClaimSameIgnoringCase(c, r) ==
    Len(c) = Len(r) /\ \A i \in 1..Len(c) : c[i] = r[i] \/ c[i] = LowerChar(r[i])

ClaimReservedName(c) == \E r \in reserved : ClaimSameIgnoringCase(c, r)

ClaimTrailing(c) == c # <<>> /\ c[Len(c)] \in {" ", "."}

ClaimBadComponent(c) ==
    LET n == normalize_component(c)
    IN  ClaimForbiddenChar(n) \/ ClaimReservedName(n) \/ ClaimTrailing(n)

\* rule 5 looks at the components that remain after rule 4
ClaimBadLiteral(s) ==
    \E i \in 1..Len(ClaimPieces(s)) :
        /\ ClaimPieces(s)[i] \notin {DOT, DOTDOT}
        /\ ClaimLiteral(ClaimPieces(s)[i])
        /\ ClaimBadComponent(ClaimPieces(s)[i])

\* the error of the earliest violated rule, "" when no rule is violated
ClaimExpectedError(s) ==
    IF ClaimEmpty(s) THEN "EmptyPath"
    ELSE IF ClaimTilde(s) THEN "TildeNotAllowed"
    ELSE IF ClaimAbsolute(s) THEN "AbsolutePathNotAllowed"
    ELSE IF ClaimNavigation(s) THEN "RelativeNavigationNotAllowed"
    ELSE IF ClaimBadLiteral(s) THEN "InvalidComponent"
    ELSE ""

ClaimRulesViolated(s) ==
    Cardinality({r \in {"empty", "tilde", "absolute", "navigation", "component"} :
        \/ r = "empty" /\ ClaimEmpty(s)
        \/ r = "tilde" /\ ClaimTilde(s)
        \/ r = "absolute" /\ ClaimAbsolute(s)
        \/ r = "navigation" /\ ClaimNavigation(s)
        \/ r = "component" /\ ClaimBadLiteral(s)})

\* C2: an input of validate_structural_path that violates several rules gets
\* the error of the earliest violated rule (empty, tilde, absolute,
\* navigation, component).
C2_EarliestRuleWins ==
    (call.op = "validate_structural_path" /\ ClaimRulesViolated(call.arg) >= 2)
        => call.result.err = ClaimExpectedError(call.arg)

\* C3 as stated: every input with a ".." component fails with
\* RelativeNavigationNotAllowed.
C3_DotDotAlwaysNavigationError ==
    (call.op \in {"validate_structural_path", "validate_and_normalize"}
     /\ ClaimHasPiece(call.arg, DOTDOT))
        => call.result.err = "RelativeNavigationNotAllowed"

\* C3 amended: every input with a ".." component is rejected, with
\* TildeNotAllowed when it starts with "~", AbsolutePathNotAllowed when it
\* starts with a separator, and RelativeNavigationNotAllowed otherwise.
C3_DotDotRejected ==
    (call.op \in {"validate_structural_path", "validate_and_normalize"}
     /\ ClaimHasPiece(call.arg, DOTDOT))
        => /\ call.result.tag = "Err"
           /\ call.result.err = IF ClaimTilde(call.arg) THEN "TildeNotAllowed"
                                ELSE IF ClaimAbsolute(call.arg) THEN "AbsolutePathNotAllowed"
                                ELSE "RelativeNavigationNotAllowed"

\* C3 witness: validate_structural_path rejects an input whose ".." component
\* comes after a normal one with RelativeNavigationNotAllowed.
C3_Witness ==
    /\ call.op = "validate_structural_path"
    /\ Len(ClaimPieces(call.arg)) = 3
    /\ ClaimPieces(call.arg)[1] = <<"a">>
    /\ ClaimPieces(call.arg)[2] = DOTDOT
    /\ call.result = Err("RelativeNavigationNotAllowed")

\* C4: a relative input without leading "~" that has a "." component at any
\* position is rejected by validate_structural_path with
\* RelativeNavigationNotAllowed.
C4_DotRejectedAnywhere ==
    (call.op = "validate_structural_path" /\ ClaimHasPiece(call.arg, DOT)
     /\ ~ClaimTilde(call.arg) /\ ~ClaimAbsolute(call.arg))
        => call.result = Err("RelativeNavigationNotAllowed")

\* C5: an absolute input (a separator first, after trimming) is rejected with
\* AbsolutePathNotAllowed by validate_structural_path, validate_and_normalize,
\* register and register_template; a registration then adds no entry.
C5_AbsoluteRejected ==
    (call.op \in {"validate_structural_path", "validate_and_normalize", "register",
                  "register_template"}
     /\ ClaimAbsolute(call.arg))
        => /\ call.result = Err("AbsolutePathNotAllowed")
           /\ plugin.registrations = <<>>
           /\ plugin.template_registrations = <<>>

\* C5 witness: register_template rejects an input whose separator comes after
\* leading whitespace with AbsolutePathNotAllowed.
C5_Witness ==
    /\ call.op = "register_template"
    /\ ClaimAbsolute(call.arg)
    /\ call.arg[1] = " "
    /\ call.result = Err("AbsolutePathNotAllowed")

\* C6: a component without forbidden character and without trailing space or
\* dot is rejected with InvalidComponent exactly when it equals a reserved
\* device name, ignoring case; one that only starts with such a name passes.
C6_ReservedExactIgnoringCase ==
    (call.op = "validate_component" /\ ~ClaimForbiddenChar(call.arg)
     /\ ~ClaimTrailing(call.arg))
        => /\ ClaimReservedName(call.arg) => call.result = InvalidComponent(call.arg)
           /\ ~ClaimReservedName(call.arg) => call.result = Ok(<<>>)

\* C6 witness: validate_component accepts CONSOLE, which starts with CON.
C6_Witness ==
    /\ call.op = "validate_component"
    /\ call.arg = <<"C", "O", "N", "S", "O", "L", "E">>
    /\ call.result = Ok(<<>>)

ClaimStructurallyFine(s) ==
    ~ClaimEmpty(s) /\ ~ClaimTilde(s) /\ ~ClaimAbsolute(s) /\ ~ClaimNavigation(s)

\* C8 as stated: a non-empty relative input without leading "~", without "."
\* or ".." component and without forbidden character in its literal
\* components is accepted by validate_structural_path, and the text of the
\* returned path is the trimmed input.
C8_PermittedCharsAccepted ==
    (call.op = "validate_structural_path" /\ ClaimStructurallyFine(call.arg)
     /\ \A i \in 1..Len(ClaimPieces(call.arg)) :
            ClaimLiteral(ClaimPieces(call.arg)[i]) => ~ClaimForbiddenChar(ClaimPieces(call.arg)[i]))
        => call.result = Ok(trim(call.arg))

\* C8 amended: when moreover no literal component is a reserved name or ends
\* with a space or a dot, the input is accepted and the text of the returned
\* path is the trimmed input, character for character.
C8_ValidAcceptedVerbatim ==
    (call.op = "validate_structural_path" /\ ClaimStructurallyFine(call.arg)
     /\ ~ClaimBadLiteral(call.arg))
        => call.result = Ok(trim(call.arg))

\* C8 witness: an input with a placeholder component, a decomposed e-acute
\* and a trailing space is accepted and returned trimmed, otherwise unchanged.
C8_Witness ==
    /\ call.op = "validate_structural_path"
    /\ call.arg = <<"{", "x", "}", "*", "/", "e", "COMBINING_ACUTE", "/", "a", " ">>
    /\ call.result = Ok(SubSeq(call.arg, 1, 9))

(***************************************************************************)
(* Resolution.                                                             *)
(***************************************************************************)
\* p has root as a prefix, component by component, and only Normal
\* components after it
ClaimInside(p, root) ==
    LET cp == components(p)
        cr == components(root)
    IN  /\ Len(cr) <= Len(cp)
        /\ SubSeq(cp, 1, Len(cr)) = cr
        /\ \A i \in (Len(cr) + 1)..Len(cp) : cp[i].kind = "Normal"

\* C1: the path resolve returns for a validated template lies inside
\* project_root(), whatever the field values are.
C1_ResolvedInsideRoot ==
    (call.op = "resolve" /\ call.result.tag = "Some"
     /\ (register_template_check(call.arg).tag = "Ok"
         \/ validate_structural_path(call.arg).tag = "Ok"))
        => ClaimInside(call.result.val, project_root(registry))

ClaimBraceFree(s) == \A i \in 1..Len(s) : s[i] \notin {"{", "}"}

ClaimCount(s, c, i) == Cardinality({j \in 1..i : s[j] = c})

\* the braces of t alternate: "{", "}", "{", "}", ...
ClaimUnnested(t) ==
    /\ \A i \in 1..Len(t) : ClaimCount(t, "{", i) - ClaimCount(t, "}", i) \in {0, 1}
    /\ ClaimCount(t, "{", Len(t)) = ClaimCount(t, "}", Len(t))

ClaimOccurrences(t, p) == {i \in 1..Len(t) : OccursAt(t, p, i)}

\* no p is left in rel, and each place where p stood in t holds v in rel
ClaimAllReplaced(t, p, v, rel) ==
    LET occ == ClaimOccurrences(t, p)
        shift == Len(v) - Len(p)
    IN  /\ ~ContainsStr(rel, p)
        /\ Len(rel) = Len(t) + Cardinality(occ) * shift
        /\ \A i \in occ :
              OccursAt(rel, v, i + Cardinality({j \in occ : j < i}) * shift)

ClaimOrderings(s) ==
    {[i \in 1..Len(s) |-> s[f[i]]] :
        f \in {g \in [1..Len(s) -> 1..Len(s)] : \A i, j \in 1..Len(s) : i # j => g[i] # g[j]}}

ClaimOrderIndependent ==
    \A fs \in ClaimOrderings(call.fields) :
        join(project_root(registry), resolve_template_reflection(call.arg, fs))
            = call.result.val

\* C10 as stated: the resolved path of a typed path is the same for every
\* ordering of its fields.
C10_AnyFieldsOrderIndependent ==
    call.op = "resolve" => ClaimOrderIndependent

\* C10 amended: it is the same for every ordering of the fields when the
\* braces of the template are not nested and no field value contains a brace.
C10_BraceFreeOrderIndependent ==
    (call.op = "resolve" /\ ClaimUnnested(call.arg)
     /\ \A i \in 1..Len(call.fields) :
            ClaimBraceFree(convert_reflect_to_string(call.fields[i].value)))
        => ClaimOrderIndependent

\* C10 witness: chunks/{x}_{y}.dat resolved by a struct that declares y before
\* x, with x = 10 and y = -5, yields chunks/10_-5.dat under the project root.
C10_Witness ==
    /\ call.op = "resolve"
    /\ call.arg = CHUNKS_TEMPLATE
    /\ call.fields = <<[name |-> <<"y">>, value |-> I32Value(-5)],
                       [name |-> <<"x">>, value |-> I32Value(10)]>>
    /\ call.result = Some(BASE_DIR \o <<"/", "S", "/", "P", "/", "c", "h", "u", "n", "k", "s",
                                        "/", "1", "0", "_", "-", "5", ".", "d", "a", "t">>)

(***************************************************************************)
(* SpecRoot: plugins of any identifiers; a plugin takes registrations, is  *)
(* built, and the project root and the registered path are asked for.      *)
(***************************************************************************)
MY_STUDIO == <<"M", "y", "S", "t", "u", "d", "i", "o">>
MY_GAME == <<"M", "y", "G", "a", "m", "e">>
CLIENT == <<"C", "l", "i", "e", "n", "t">>

\* the identifiers of the tests
Idents == {STUDIO, PROJECT, APP, MY_STUDIO, MY_GAME, CLIENT}

\* PathRegistryPlugin::new(studio, project_id, app_id)
InitRoot ==
    /\ \E studio \in Idents, project_id \in Idents, app_id \in Idents :
          plugin = [NewPlugin EXCEPT !.studio = studio, !.project_id = project_id,
                                     !.app_id = app_id]
    /\ registry = NoRegistry
    /\ call = NoCall
    /\ decl = NoDecl
    /\ env = HostEnv

NextRoot ==
    \/ Registered < MaxRegs /\ Register("SavePath", SAVES_SLOT_1)
    \/ Registered < MaxRegs /\ RegisterTemplate("DynamicLevel", LEVELS_TEMPLATE)
    \/ Build
    \/ ProjectRoot
    \/ Get("SavePath")

SpecRoot == InitRoot /\ [][NextRoot]_vars

\* C11: project_root() is the base path, the studio and the project
\* identifier joined by separators, whatever the app identifier and the
\* registered paths and templates are; get builds on the same root.
C11_ProjectRootIsBaseStudioProject ==
    LET root == registry.base_path \o <<SLASH>> \o registry.studio
                    \o <<SLASH>> \o registry.project_id
    IN  /\ call.op = "project_root" => call.result = Ok(root)
        /\ (call.op = "get" /\ call.result.tag = "Some")
              => call.result.val = root \o <<SLASH>> \o registry.paths[call.kind]

\* C11 witness: the root of base /tmp/base, studio MyStudio, project MyGame,
\* asked of a registry whose app is Client and which holds a path and a template.
C11_Witness ==
    /\ call.op = "project_root"
    /\ registry.app_id = CLIENT
    /\ DOMAIN registry.paths = {"SavePath"}
    /\ DOMAIN registry.templates = {"DynamicLevel"}
    /\ call.result = Ok(TMP_BASE_DIR \o <<SLASH>> \o MY_STUDIO \o <<SLASH>> \o MY_GAME)

(***************************************************************************)
(* Lookups.                                                                *)
(***************************************************************************)
\* C12: get, get_relative and resolve of a kind that was registered neither
\* with a path nor with a template return None, whatever the key and the
\* value are, and the program goes on: the registry stays active.
C12_UnregisteredIsNone ==
    (call.op \in {"get", "get_relative", "resolve"}
     /\ call.kind \notin (DOMAIN registry.paths \cup DOMAIN registry.templates))
        => /\ call.result = None
           /\ registry.state = "Active"
           /\ plugin.state = "Built"

\* C12 witness: resolve of SavePath, never registered, with a non-empty value
\* on a registry that holds a template for DynamicLevel.
C12_Witness ==
    /\ call.op = "resolve"
    /\ call.kind = "SavePath"
    /\ call.fields[1].value = DATE_VALUE
    /\ DOMAIN registry.paths = {}
    /\ DOMAIN registry.templates = {"DynamicLevel"}
    /\ call.result = None

\* the path a template of the registry resolves to
ClaimTemplateResolved ==
    Some(join(project_root(registry),
              replace(registry.templates[call.kind], placeholder_of(call.fields[1].name),
                      call.fields[1].value)))

\* C13 as stated: resolve returns the joined fixed path for a kind registered
\* with a fixed path, the joined substituted template for a kind registered
\* with a template, and None only for a kind registered in neither form.
C13_ResolveHandlesBothForms ==
    call.op = "resolve"
        => /\ (call.kind \in DOMAIN registry.paths /\ call.kind \notin DOMAIN registry.templates)
                 => call.result = Some(join(project_root(registry), registry.paths[call.kind]))
           /\ call.kind \in DOMAIN registry.templates => call.result = ClaimTemplateResolved
           /\ call.result = None
                 <=> call.kind \notin (DOMAIN registry.paths \cup DOMAIN registry.templates)

\* C13 amended: resolve looks at templates only, and returns None for every
\* kind without template, one registered with a fixed path included; get
\* looks at fixed paths only, and returns None for every kind without one.
C13_ResolveTemplatesGetPaths ==
    /\ call.op = "resolve"
          => /\ call.kind \in DOMAIN registry.templates => call.result = ClaimTemplateResolved
             /\ call.kind \notin DOMAIN registry.templates => call.result = None
    /\ call.op = "get"
          => /\ call.kind \in DOMAIN registry.paths
                   => call.result = Some(join(project_root(registry), registry.paths[call.kind]))
             /\ call.kind \notin DOMAIN registry.paths => call.result = None

\* C13 witness: SavePath is registered with the fixed path saves/slot_1 only,
\* and resolve of SavePath returns None.
C13_Witness ==
    /\ call.op = "resolve"
    /\ call.kind = "SavePath"
    /\ "SavePath" \in DOMAIN registry.paths
    /\ registry.paths["SavePath"] = SAVES_SLOT_1
    /\ "SavePath" \notin DOMAIN registry.templates
    /\ call.result = None

(***************************************************************************)
(* Registration.                                                           *)
(***************************************************************************)
\* C14: register_template accepts a template exactly when
\* validate_structural_path accepts it and rejects it with the same error
\* kind, so a stored template has no leading "~" and only literal components
\* that pass the component validator.
C14_TemplateRegistrationIsValidator ==
    call.op = "register_template"
        => /\ call.result.tag = validate_structural_path(call.arg).tag
           /\ call.result.err = validate_structural_path(call.arg).err
           /\ \A i \in 1..Len(plugin.template_registrations) :
                 /\ ~ClaimTilde(plugin.template_registrations[i][2])
                 /\ ~ClaimBadLiteral(plugin.template_registrations[i][2])

\* a fixed relative path as the rules want it: non-empty, relative, no
\* leading "~", no "." or ".." component, every component valid
ClaimValidFixedPath(p) ==
    /\ p # <<>>
    /\ p[1] # SLASH
    /\ p[1] # "~"
    /\ \A i \in 1..Len(Split(p)) :
          /\ Split(p)[i] \notin {DOT, DOTDOT}
          /\ validate_component(Split(p)[i]).tag = "Ok"

\* an input of register violates a rule: it is empty, starts with "~", is
\* absolute, has a "." or ".." component, or has an invalid component
ClaimViolatesRule(s) ==
    \/ ClaimEmpty(s) \/ ClaimTilde(s) \/ ClaimAbsolute(s) \/ ClaimNavigation(s)
    \/ \E i \in 1..Len(ClaimPieces(s)) :
          ClaimPieces(s)[i] \notin {DOT, DOTDOT} /\ ClaimBadComponent(ClaimPieces(s)[i])

\* C15: every fixed path held in the registrations is valid, and a register
\* call whose input violates a rule returns an error and adds no entry.
C15_RegistrationsValid ==
    /\ \A i \in 1..Len(plugin.registrations) : ClaimValidFixedPath(plugin.registrations[i][2])
    /\ (call.op = "register" /\ ClaimViolatesRule(call.arg))
          => /\ call.result.tag = "Err"
             /\ plugin.state = "Dropped"
             /\ plugin.registrations = <<>>

(***************************************************************************)
(* The base path: determine_base_path on the filesystem of the host, and   *)
(* Plugin::build with it.                                                   *)
(***************************************************************************)
ASSETS_DEBUG == <<"a", "s", "s", "e", "t", "s", "_", "d", "e", "b", "u", "g">>
NEW_DIR == <<"/", "n", "e", "w">>
NEW_DEEP_DIR == <<"/", "n", "e", "w", "/", "d", "e", "e", "p">>
RO_NEW_DIR == <<"/", "r", "o", "/", "n", "e", "w">>
DATA_PARENT == <<"/", "d", "a", "t", "a", "/", ".", ".">>
UP_DATA == <<".", ".", "/", "d", "a", "t", "a">>
BELOW_FILE == <<"/", "d", "a", "t", "a", "/", "f", "i", "l", "e", "/", "s", "u", "b">>
EXECUTABLE_PATH == <<"<", "e", "x", "e", "c", "u", "t", "a", "b", "l", "e", "_", "p", "a", "t", "h", ">">>

\* env::current_exe() and its parent: the directory of the executable
exe_dir(e) ==
    IF e.exe = NoExe THEN ErrPath("BasePathCanonicalizationFailed", EXECUTABLE_PATH)
    ELSE Ok(parent(e.exe).val)

\* a mutant of the choice of the directory: a relative override is ignored
choose_base_path_exe_only(override_path, dir) ==
    IF override_path.tag = "Some" /\ is_absolute(override_path.val) THEN override_path.val
    ELSE dir

\* let base_path = match override_path { ... }
choose_base_path(override_path, dir) ==
    IF override_path.tag = "Some" /\ is_absolute(override_path.val) THEN override_path.val
    ELSE IF override_path.tag = "Some" THEN join(dir, override_path.val)
    ELSE dir

\* a mutant of determine_base_path: the directory of the executable is asked
\* for only when the override is not absolute
determine_base_path_override_first(e, override_path) ==
    LET absolute == override_path.tag = "Some" /\ is_absolute(override_path.val)
        dir == IF absolute THEN Ok(override_path.val) ELSE exe_dir(e)
    IN  IF dir.tag = "Err" THEN [result |-> dir, dirs |-> e.dirs]
        ELSE LET base_path == choose_base_path(override_path, dir.val)
                 made == IF exists(e, base_path) THEN [ok |-> TRUE, dirs |-> e.dirs]
                         ELSE create_dir_all(e, base_path)
                 left == made.dirs \ e.removed
                 canonical_path == canonicalize([e EXCEPT !.dirs = left], base_path)
             IN  IF ~made.ok
                 THEN [result |-> ErrPath("CreateDirFailed", base_path), dirs |-> made.dirs]
                 ELSE IF canonical_path.tag = "Err"
                 THEN [result |-> ErrPath("BasePathCanonicalizationFailed", base_path),
                       dirs |-> left]
                 ELSE IF parent(canonical_path.val) = None
                 THEN [result |-> ErrPath("BasePathIsRoot", canonical_path.val),
                       dirs |-> left]
                 ELSE [result |-> Ok(canonical_path.val), dirs |-> left]

\* determine_base_path: what it returns and the directories that exist after
\* it; left are the directories the canonicalization finds
determine_base_path(e, override_path) ==
    LET dir == exe_dir(e)
    IN  IF dir.tag = "Err" THEN [result |-> dir, dirs |-> e.dirs]
        ELSE LET base_path == choose_base_path(override_path, dir.val)
                 made == IF exists(e, base_path) THEN [ok |-> TRUE, dirs |-> e.dirs]
                         ELSE create_dir_all(e, base_path)
                 left == made.dirs \ e.removed
                 canonical_path == canonicalize([e EXCEPT !.dirs = left], base_path)
             IN  IF ~made.ok
                 THEN [result |-> ErrPath("CreateDirFailed", base_path), dirs |-> made.dirs]
                 ELSE IF canonical_path.tag = "Err"
                 THEN [result |-> ErrPath("BasePathCanonicalizationFailed", base_path),
                       dirs |-> left]
                 ELSE IF parent(canonical_path.val) = None
                 THEN [result |-> ErrPath("BasePathIsRoot", canonical_path.val),
                       dirs |-> left]
                 ELSE [result |-> Ok(canonical_path.val), dirs |-> left]

\* a mutant of the override Plugin::build hands on: none in any build
override_path_none(e, p) == None

\* the override Plugin::build hands to determine_base_path: the configured one
\* under cfg(debug_assertions), None otherwise
override_path(e, p) == IF e.debug THEN p.base_path_override ELSE None

\* PathRegistryPlugin::with_base_path(self, path): the method exists under
\* cfg(debug_assertions) only
WithBasePath(path) ==
    /\ plugin.state = "Building"
    /\ env.debug
    /\ plugin' = [plugin EXCEPT !.base_path_override = Some(path)]
    /\ call' = Call("with_base_path", "", path, <<>>, Ok(<<>>))
    /\ UNCHANGED <<registry, decl, env>>

\* Plugin::build of src/src/lib.rs on the host: determine_base_path(..)
\* .expect(..) panics on an error, otherwise the registry is built on the base
\* path it returned and inserted
PluginBuild ==
    LET o == override_path(env, plugin)
        r == determine_base_path(env, o)
    IN  /\ plugin.state = "Building"
        /\ env' = [env EXCEPT !.dirs = r.dirs]
        /\ call' = Call("build", "", o, <<>>, r.result)
        /\ IF r.result.tag = "Ok"
           THEN /\ registry' = [state |-> "Active", studio |-> plugin.studio,
                                project_id |-> plugin.project_id, app_id |-> plugin.app_id,
                                base_path |-> r.result.val,
                                paths |-> collect(plugin.registrations),
                                templates |-> collect(plugin.template_registrations)]
                /\ plugin' = [plugin EXCEPT !.state = "Built"]
           ELSE /\ plugin' = [plugin EXCEPT !.state = "Panicked"]
                /\ UNCHANGED registry
        /\ UNCHANGED decl

\* the paths handed to with_base_path
OverrideInputs ==
    {DATA_DIR, NEW_DIR, NEW_DEEP_DIR, DATA_LINK, ROOT_LINK, ROOT_DIR, DATA_FILE, RO_NEW_DIR,
     DATA_PARENT, BELOW_FILE, ASSETS_DEBUG, <<>>, DOTDOT, UP_DATA}

\* the directories another process may remove during the build
Removals == {{}, {NEW_DIR, NEW_DEEP_DIR}}

\* the hosts: a debug or a release build, started from /app/game, from /game,
\* or with no executable path to be had, alone or beside a process that
\* removes directories
InitBase ==
    /\ plugin = NewPlugin
    /\ registry = NoRegistry
    /\ call = NoCall
    /\ decl = NoDecl
    /\ \E debug \in BOOLEAN, exe \in {EXE_FILE, ROOT_EXE_FILE, NoExe}, removed \in Removals :
          env = [HostEnv EXCEPT !.debug = debug, !.exe = exe, !.removed = removed]

NextBase ==
    \/ \E path \in OverrideInputs : WithBasePath(path)
    \/ Registered < MaxRegs /\ Register("SavePath", SAVES_SLOT_1)
    \/ PluginBuild
    \/ ProjectRoot
    \/ Get("SavePath")

SpecBase == InitBase /\ [][NextBase]_vars

\* the directory of the executable, as text: its path without the last name
ClaimExeDir == PathOf(SubSeq(Names(env.exe), 1, Len(Names(env.exe)) - 1))

\* the directory the override o stands for: o itself when absolute, o below
\* the directory of the executable when relative, that directory without o
ClaimCandidate(o) ==
    IF o = None THEN ClaimExeDir
    ELSE IF o.val # <<>> /\ o.val[1] = SLASH THEN o.val
    ELSE ClaimExeDir \o <<SLASH>> \o o.val

\* C16: the base path a successful build determines is the canonical form of
\* the absolute override, of the relative override below the directory of the
\* executable, or of that directory when there is no override.
C16_CanonicalOfChosenDirectory ==
    (call.op = "build" /\ call.result.tag = "Ok")
        => /\ call.result = canonicalize(env, ClaimCandidate(call.arg))
           /\ registry.base_path = call.result.val

\* C16 witness: started from /app/game with the relative override
\* assets_debug, the build creates /app/assets_debug and takes it as base path.
C16_Witness ==
    /\ call.op = "build"
    /\ env.exe = EXE_FILE
    /\ call.arg = Some(ASSETS_DEBUG)
    /\ call.result = Ok(APP_DIR \o <<SLASH>> \o ASSETS_DEBUG)
    /\ call.result.val \in env.dirs

\* C17: a successful result is an existing directory, canonical and not the
\* root; a candidate that resolves to the root yields BasePathIsRoot and one
\* that is a regular file yields BasePathNotADirectory.
C17_ExistingDirectoryNotRoot ==
    (call.op = "build" /\ env.exe # NoExe)
        => LET candidate == canonicalize(env, ClaimCandidate(call.arg))
           IN  /\ call.result.tag = "Ok"
                     => /\ call.result.val \in env.dirs
                        /\ canonicalize(env, call.result.val) = call.result
                        /\ call.result.val # ROOT_DIR
               /\ candidate = Ok(ROOT_DIR) => call.result.err = "BasePathIsRoot"
               /\ (candidate.tag = "Ok" /\ candidate.val \in env.files)
                     => call.result.err = "BasePathNotADirectory"

\* C18: a release build hands no override to determine_base_path, holds none,
\* and takes the directory of the executable as base path; a debug build hands
\* on the override the plugin was configured with.
C18_OverrideInDebugOnly ==
    call.op = "build"
        => /\ ~env.debug
                 => /\ call.arg = None
                    /\ plugin.base_path_override = None
                    /\ call.result.tag = "Ok" => call.result = canonicalize(env, ClaimExeDir)
           /\ env.debug => call.arg = plugin.base_path_override

\* C18 witness: a release build started from /app/game takes /app.
C18_Witness ==
    /\ call.op = "build"
    /\ ~env.debug
    /\ call.arg = None
    /\ call.result = Ok(APP_DIR)
    /\ registry.base_path = APP_DIR

(***************************************************************************)
(* The derive macro.                                                       *)
(***************************************************************************)
\* the names of a struct's fields
ClaimFieldNames(fields) == {fields[i].name : i \in 1..Len(fields)}

\* the placeholder names of a template
ClaimPlaceholderNames(template) ==
    {extract_placeholders(template)[i] : i \in 1..Len(extract_placeholders(template))}

\* C19: deriving Path for a struct whose template names a placeholder that is
\* no field of the struct yields a compile error, not an implementation; so a
\* path resolved for a type whose derive succeeds holds no placeholder of its
\* template any more.
C19_DeriveRejectsMismatch ==
    /\ (call.op = "derive" /\ call.arg # None
        /\ ~(ClaimPlaceholderNames(call.arg.val) \subseteq ClaimFieldNames(call.fields)))
          => call.result.tag = "Err"
    /\ (call.op = "resolve" /\ derive_path(Some(decl.template)).tag = "Ok")
          => \A name \in ClaimPlaceholderNames(decl.template) :
                ~ContainsStr(call.rel, placeholder_of(name))

(***************************************************************************)
(* The active registry.                                                    *)
(***************************************************************************)
\* what resolve of kind k with the fields returns on registry r
ClaimResolveOn(r, k, fields) ==
    IF k \in DOMAIN r.templates
    THEN Some(join(project_root(r),
                   replace(r.templates[k], placeholder_of(fields[1].name), fields[1].value)))
    ELSE None

\* C20: once the registry is active every step is a lookup that leaves the
\* registry and the built plugin as they are, and what resolve returns is
\* determined by the registry, the kind and the values: the same lookup gives
\* the same path however often and among whatever other lookups it is made.
C20_ActiveRegistryReadOnly ==
    [][registry.state = "Active"
          => /\ registry' = registry
             /\ plugin' = plugin
             /\ call'.op \in {"project_root", "get_relative", "get", "resolve"}
             /\ call'.op = "resolve"
                   => call'.result = ClaimResolveOn(registry, call'.kind, call'.fields)]_vars

\* C20 witness: on an active registry that holds a path and a template, a
\* resolve has returned a path.
C20_Witness ==
    /\ registry.state = "Active"
    /\ plugin.state = "Built"
    /\ DOMAIN registry.paths # {}
    /\ call.op = "resolve"
    /\ call.result.tag = "Some"

(***************************************************************************)
(* Placeholders without a value.                                           *)
(***************************************************************************)
\* where position i of template t is found after the fields were substituted
\* one after the other: every replacement made to the left of it moves it by
\* the difference of the lengths of the value and the placeholder
RECURSIVE ClaimPositionAfter(_, _, _)
ClaimPositionAfter(t, fields, i) ==
    IF fields = <<>> THEN i
    ELSE LET p == placeholder_of(fields[1].name)
             v == convert_reflect_to_string(fields[1].value)
             before == Cardinality({j \in ClaimOccurrences(t, p) : j < i})
         IN  ClaimPositionAfter(replace(t, p, v), Tail(fields),
                                i + before * (Len(v) - Len(p)))

\* every occurrence of {z} in the template is found in the resolved relative
\* path, at the position the substitutions moved it to
ClaimStays(z) ==
    \A i \in ClaimOccurrences(call.arg, placeholder_of(z)) :
        OccursAt(call.rel, placeholder_of(z), ClaimPositionAfter(call.arg, call.fields, i))

\* C21 as stated: every placeholder {z} of the template whose name is no field
\* of the struct is still in the resolved path, at the corresponding position.
C21_UnsuppliedPlaceholdersStay ==
    call.op = "resolve"
        => \A z \in ClaimPlaceholderNames(call.arg) \ ClaimFieldNames(call.fields) :
              ClaimStays(z)

\* C21 amended: every placeholder {z} of the template whose name contains no
\* brace and is no field of the struct is still in the resolved path, at the
\* corresponding position, whatever the values of the fields are.
C21_BraceFreeUnsuppliedStay ==
    call.op = "resolve"
        => \A z \in ClaimPlaceholderNames(call.arg) \ ClaimFieldNames(call.fields) :
              ClaimBraceFree(z) => ClaimStays(z)

\* C21 witness: chunks/{x}_{y}.dat resolved by a struct whose only field is
\* x = 10 yields chunks/10_{y}.dat: {y} stays, one place further left.
C21_Witness ==
    /\ call.op = "resolve"
    /\ call.arg = CHUNKS_TEMPLATE
    /\ call.fields = <<[name |-> <<"x">>, value |-> I32Value(10)]>>
    /\ call.rel = <<"c", "h", "u", "n", "k", "s", "/", "1", "0", "_", "{", "y", "}",
                    ".", "d", "a", "t">>
    /\ OccursAt(call.rel, <<"{", "y", "}">>, 11)
    /\ ClaimPositionAfter(call.arg, call.fields, 12) = 11

(***************************************************************************)
(* Trailing spaces and dots.                                               *)
(***************************************************************************)
\* the components of the input as it is handed in, before trimming
ClaimRawPieces(s) == Split(s)

\* C22: an input that violates none of the rules before the component rule and
\* has a literal component ending with a space or a dot, the last component of
\* the input as handed in included, fails with InvalidComponent; so do the
\* documented examples "file .txt" and "file.".
C22_TrailingSpaceOrDotRejected ==
    call.op = "validate_structural_path"
        => /\ (ClaimStructurallyFine(call.arg)
               /\ \E i \in 1..Len(ClaimRawPieces(call.arg)) :
                      /\ ClaimLiteral(ClaimRawPieces(call.arg)[i])
                      /\ ClaimTrailing(ClaimRawPieces(call.arg)[i]))
                 => call.result.err = "InvalidComponent"
           /\ call.arg \in DocInputs => call.result.err = "InvalidComponent"

(***************************************************************************)
(* The order of the steps of determine_base_path.                          *)
(***************************************************************************)
\* the host before the build: only the build changes the directories
ClaimHostBefore == [env EXCEPT !.dirs = HostEnv.dirs]

\* the candidate of the build exists before the build
ClaimCandidateExists == exists(ClaimHostBefore, ClaimCandidate(call.arg))

\* the candidate cannot be created: a regular file is in its way, or a
\* directory on the way to it takes no entry
ClaimCreationFails == ~create_dir_all(ClaimHostBefore, ClaimCandidate(call.arg)).ok

\* the canonical form of the candidate after the build
ClaimCanonical == canonicalize(env, ClaimCandidate(call.arg))

\* C23: the steps run in the order executable directory, candidate, creation,
\* canonicalization, root check, and the first failing step ends the call:
\* without executable directory the error is BasePathCanonicalizationFailed
\* and nothing is created, whatever the override is; directories are created
\* only for a candidate that does not exist, and a failing creation gives
\* CreateDirFailed; a failing canonicalization gives
\* BasePathCanonicalizationFailed; BasePathIsRoot is reported only for a
\* candidate whose canonicalization succeeded.
C23_StepsInOrder ==
    call.op = "build"
        => IF env.exe = NoExe
           THEN /\ call.result = ErrPath("BasePathCanonicalizationFailed", EXECUTABLE_PATH)
                /\ env.dirs = HostEnv.dirs
           ELSE /\ ClaimCandidateExists => env.dirs \subseteq HostEnv.dirs
                /\ call.result.err = "CreateDirFailed"
                      <=> (~ClaimCandidateExists /\ ClaimCreationFails)
                /\ (call.result.err # "CreateDirFailed" /\ ClaimCanonical.tag = "Err")
                      => call.result.err = "BasePathCanonicalizationFailed"
                /\ call.result.err = "BasePathIsRoot" => ClaimCanonical = Ok(ROOT_DIR)
                /\ call.result.tag = "Ok" => call.result = ClaimCanonical

\* C23 witness: no executable path is to be had and the override is the
\* absolute path /new, which does not exist: the build fails with
\* BasePathCanonicalizationFailed and /new is not created.
C23_Witness ==
    /\ call.op = "build"
    /\ env.exe = NoExe
    /\ call.arg = Some(NEW_DIR)
    /\ call.result = ErrPath("BasePathCanonicalizationFailed", EXECUTABLE_PATH)
    /\ NEW_DIR \notin env.dirs
    /\ plugin.state = "Panicked"

(***************************************************************************)
(* SpecOrder: a plugin takes several registrations, of the same kind and   *)
(* of either form among them, is built, and the registry is asked.         *)
(***************************************************************************)
SAVES_DATA == <<"s", "a", "v", "e", "s", "/", "d", "a", "t", "a">>

OrderPaths == {SAVES_SLOT_1, SAVES_DATA}

OrderTemplates == {LEVELS_TEMPLATE, BACKUP_TEMPLATE}

NextOrder ==
    \/ \E k \in Kinds, s \in OrderPaths : Registered < MaxCalls /\ Register(k, s)
    \/ \E k \in Kinds, s \in OrderTemplates : Registered < MaxCalls /\ RegisterTemplate(k, s)
    \/ Build
    \/ \E k \in Kinds : GetRelative(k)
    \/ \E k \in Kinds : Get(k)
    \/ \E k \in Kinds : Resolve(k, <<"i", "d">>, DATE_VALUE)

SpecOrder == Init /\ [][NextOrder]_vars

\* the kinds of the calls recorded in regs
ClaimKindsOf(regs) == {regs[i][1] : i \in 1..Len(regs)}

\* the value of the last call of kind k among the calls recorded in regs,
\* looked for from the last call backwards
RECURSIVE ClaimLastOf(_, _)
ClaimLastOf(regs, k) ==
    IF regs[Len(regs)][1] = k THEN regs[Len(regs)][2]
    ELSE ClaimLastOf(SubSeq(regs, 1, Len(regs) - 1), k)

\* C24: the registry holds, in the map of fixed paths, one entry for each kind
\* register was called for, with the value of the last such call, and the same
\* in the map of templates for register_template; the calls are recorded in
\* call order: the value of the latest successful call is the last recorded
\* one of its kind.
C24_LastRegistrationWins ==
    /\ registry.state = "Active"
          => /\ DOMAIN registry.paths = ClaimKindsOf(plugin.registrations)
             /\ \A k \in DOMAIN registry.paths :
                   registry.paths[k] = ClaimLastOf(plugin.registrations, k)
             /\ DOMAIN registry.templates = ClaimKindsOf(plugin.template_registrations)
             /\ \A k \in DOMAIN registry.templates :
                   registry.templates[k] = ClaimLastOf(plugin.template_registrations, k)
    /\ (call.op = "register" /\ call.result.tag = "Ok")
          => ClaimLastOf(plugin.registrations, call.kind) = call.result.val
    /\ (call.op = "register_template" /\ call.result.tag = "Ok")
          => ClaimLastOf(plugin.template_registrations, call.kind) = call.result.val

\* C24 witness: SavePath was registered with saves/slot_1 and then with
\* saves/data, with a registration of DynamicLevel in between; get of
\* SavePath returns saves/data under the project root.
C24_Witness ==
    /\ registry.state = "Active"
    /\ plugin.registrations = <<<<"SavePath", SAVES_SLOT_1>>, <<"DynamicLevel", SAVES_SLOT_1>>,
                                <<"SavePath", SAVES_DATA>>>>
    /\ call.op = "get"
    /\ call.kind = "SavePath"
    /\ call.result = Some(BASE_DIR \o <<"/", "S", "/", "P", "/">> \o SAVES_DATA)

\* C25: in the registry no kind is a key of both the map of fixed paths and
\* the map of templates.
C25_NoKindInBothMaps ==
    registry.state = "Active"
        => DOMAIN registry.paths \cap DOMAIN registry.templates = {}

====
